---- MODULE Spec2Model ----
(***************************************************************************)
(* Model of uptechstar-rs: the lazily initialised native library handle    *)
(* (extern_lib.rs), the adapters that resolve one symbol and call it       *)
(* (adc_io.rs, display.rs, mpu.rs) and the pure helpers of display.rs.     *)
(*                                                                         *)
(* A process is a set of threads.  Each thread performs a bounded number   *)
(* of operations; an adapter operation dereferences LIBRARY (which forces  *)
(* the once_cell Lazy), resolves its symbol, invokes the native entry      *)
(* point and post-processes the return value.  The native module is the    *)
(* environment: its return values and its export table are chosen          *)
(* nondeterministically.                                                   *)
(***************************************************************************)
EXTENDS Integers, Sequences, FiniteSets, TLC

\* ------------------------------------------------------------------ bounds
NumThreads == 2
MaxOps == 3

\* ------------------------------------------------------- program constants
NumChannels == 8
AdcChannels == 10
Axes == 3
DefaultFont == 11
Vertical == 1
Horizontal == 2
None == 0

Threads == 1..NumThreads

VARIABLES
    cell,          \* state of the once_cell behind LIBRARY
    initFn,        \* TRUE while the Lazy still owns its initializer closure
    handle,        \* 0: no Library value; k > 0: the k-th loaded instance
    exports,       \* symbols exported by the loaded module
    tmpFile,       \* the temporary file of the bootstrap
    initRuns,      \* how many times the initializer closure was entered
    extractions,   \* how many temporary files were created
    loads,         \* how many times Library::new succeeded
    pc,            \* per thread: position in the current operation
    op,            \* per thread: the operation being performed
    stage,         \* per thread: position in the chain of adapter methods
    index,         \* per thread: loop variable of set_all_io_mode
    failed,        \* per thread: failure flag of set_all_io_mode
    calls,         \* per thread: native invocations of the current operation
    result,        \* per thread: value returned by the last finished operation
    errs,          \* per thread: error! records of the current operation
    h,             \* per thread: the handle the thread's deref of LIBRARY gave
    waited,        \* per thread: the deref found the initializer running and parked
    begun,         \* operations the callers have begun, over all threads
    adapterBegun,  \* history: some adapter operation was begun
    returned,      \* history: adapter operations that returned to their caller
    nativeEntered, \* history: some native entry point was invoked
    mem,           \* per thread: the buffer handed to the native call (the caller's
                   \* array, or the adapter's local), as a sequence
    left,          \* per thread, history: what the native call left in that buffer
    prev,          \* history: the lifecycle call (adc_open, adc_close) that returned last
    chanMode,      \* the board: the direction mode each IO channel was last set to
                   \* (-1: never set), followed by the interleaving specification
    overlapped,    \* history: two threads were inside native entry points at once
    screen,        \* per thread: the Screen the thread calls its methods on (at
                   \* first as Screen::new(None) builds it), as the tuple
                   \* <<screen_size.0, screen_size.1, font_size, screen_dir>>
    self           \* per thread: the Screen the running operation works on (the
                   \* local of Screen::new, or the &mut borrow of the thread's Screen)

libVars == <<cell, initFn, handle, exports, tmpFile, initRuns, extractions, loads>>
thrVars == <<pc, op, stage, index, failed, calls, result, errs, h, waited>>
histVars == <<begun, adapterBegun, returned, nativeEntered>>
devVars == <<mem, left, prev, chanMode, overlapped>>
scrVars == <<screen, self>>
vars == <<libVars, thrVars, histVars, devVars, scrVars>>

\* ------------------------------------------------------ integer arithmetic
\* u32 left shift of a zero-extended byte by k <= 16: the product is below
\* 2^24, so no bit is shifted past bit 31 and the u32 result is the product.
Shl32(x, k) == x * 2^k

\* u8 right shift by k < 8.
ShrU8(x, k) == x \div 2^k

RECURSIVE BitAnd(_, _)
BitAnd(x, y) ==
    IF x = 0 \/ y = 0 THEN 0
    ELSE (x % 2) * (y % 2) + 2 * BitAnd(x \div 2, y \div 2)

RECURSIVE BitOr(_, _)
BitOr(x, y) ==
    IF x = 0 THEN y
    ELSE IF y = 0 THEN x
    ELSE (IF x % 2 = 1 \/ y % 2 = 1 THEN 1 ELSE 0) + 2 * BitOr(x \div 2, y \div 2)

\* ------------------------------------------------- display.rs: pure helpers
\* ScreenDirection::width / height
width(d) == IF d = Vertical THEN 64 ELSE 128

\* A mutant of height: the height is not transposed against the width.
height_as_width(d) == IF d = Vertical THEN 64 ELSE 128

height(d) == IF d = Vertical THEN 128 ELSE 64

\* FontSize::row_height / column_width, indexed by the variant's code 0..14
RowHeights == <<6, 8, 12, 8, 10, 12, 8, 12, 14, 16, 16, 20, 26, 36, 40>>

ColumnWidths == <<4, 5, 5, 6, 6, 7, 8, 8, 8, 10, 12, 12, 16, 22, 24>>

\* A mutant of row_height: the row height of Font12x20 is that of Font12x16.
row_height_12x16(f) == IF f = 11 THEN 16 ELSE RowHeights[f + 1]

row_height(f) == RowHeights[f + 1]

column_width(f) == ColumnWidths[f + 1]

FontCodes == 0..14

\* enum FontSize: the variants in the order of their declaration, the variant
\* FontWxH written <<W, H>>.
FontSize ==
    <<<<4, 6>>, <<5, 8>>, <<5, 12>>, <<6, 8>>, <<6, 10>>, <<7, 12>>, <<8, 8>>, <<8, 12>>,
      <<8, 14>>, <<10, 16>>, <<12, 16>>, <<12, 20>>, <<16, 26>>, <<22, 36>>, <<24, 40>>>>

\* The discriminant the declaration gives a variant (font_size as i32).
Discriminant(v) ==
    CASE v = <<4, 6>> -> 0
      [] v = <<5, 8>> -> 1
      [] v = <<5, 12>> -> 2
      [] v = <<6, 8>> -> 3
      [] v = <<6, 10>> -> 4
      [] v = <<7, 12>> -> 5
      [] v = <<8, 8>> -> 6
      [] v = <<8, 12>> -> 7
      [] v = <<8, 14>> -> 8
      [] v = <<10, 16>> -> 9
      [] v = <<12, 16>> -> 10
      [] v = <<12, 20>> -> 11
      [] v = <<16, 26>> -> 12
      [] v = <<22, 36>> -> 13
      [] v = <<24, 40>> -> 14

\* A mutant of new_color: the green byte is shifted by 7 instead of 8.
new_color_shift7(r, g, b) == Shl32(r, 16) + Shl32(g, 7) + b

\* Color::new_color: ((r as u32) << 16) + ((g as u32) << 8) + (b as u32).
\* The u32 sum of three terms below 2^24, 2^16 and 2^8 cannot wrap.
new_color(r, g, b) == Shl32(r, 16) + Shl32(g, 8) + b

\* Color::BLACK
BLACK == new_color(0, 0, 0)

\* ------------------------------------------------------------- operations
Op(name, args) == [name |-> name, args |-> args]

NoOp == Op("none", <<>>)

\* The operations that touch no library state at all.
PureNames == {"ScreenDirection::width", "ScreenDirection::height",
              "FontSize::row_height", "FontSize::column_width",
              "Color::new_color"}

\* The native symbol each adapter method resolves.
Sym(name) ==
    CASE name = "adc_open" -> "adc_io_open"
      [] name = "adc_close" -> "adc_io_close"
      [] name = "io_get_all_channels" -> "adc_io_InputGetAll"
      [] name = "set_all_io_levels" -> "adc_io_SetAll"
      [] name = "flip_io_level" -> "adc_io_Set"
      [] name = "set_all_io_mode" -> "adc_io_ModeSet"
      [] name = "set_io_mode" -> "adc_io_ModeSet"
      [] name = "mpu6500_open" -> "mpu6500_dmp_init"
      [] name = "mpu_set_gyro_fsr" -> "mpu_set_gyro_fsr"
      [] name = "Screen::open" -> "lcd_open"
      [] name = "Screen::close" -> "lcd_close"
      [] name = "Screen::refresh" -> "LCD_Refresh"
      [] name = "Screen::fill_screen" -> "UG_FillScreen"
      [] name = "adc_get_all_channels" -> "ADC_GetAll"
      [] name = "get_all_io_mode" -> "adc_io_ModeGetAll"
      [] name = "mpu6500_get_accel" -> "mpu6500_Get_Accel"
      [] name = "mpu6500_get_gyro" -> "mpu6500_Get_Gyro"
      [] name = "mpu6500_get_attitude" -> "mpu6500_Get_Attitude"
      [] name = "mpu_get_gyro_fsr" -> "mpu_get_gyro_fsr"
      [] name = "mpu_get_accel_fsr" -> "mpu_get_accel_fsr"
      [] name = "mpu_set_accel_fsr" -> "mpu_set_accel_fsr"
      [] name = "Screen::set_font_size" -> "LCD_SetFont"
      [] name = "Screen::set_fore_color" -> "UG_SetForecolor"
      [] name = "Screen::set_back_color" -> "UG_SetBackcolor"
      [] name = "Screen::set_led_color" -> "adc_led_set"
      [] name = "Screen::put_string" -> "UG_PutString"
      [] name = "Screen::fill_frame" -> "UG_FillFrame"
      [] name = "Screen::fill_round_frame" -> "UG_FillRoundFrame"
      [] name = "Screen::fill_circle" -> "UG_FillCircle"
      [] name = "Screen::draw_mesh" -> "UG_DrawMesh"
      [] name = "Screen::draw_frame" -> "UG_DrawFrame"
      [] name = "Screen::draw_round_frame" -> "UG_DrawRoundFrame"
      [] name = "Screen::draw_pixel" -> "UG_DrawPixel"
      [] name = "Screen::draw_circle" -> "UG_DrawCircle"
      [] name = "Screen::draw_arc" -> "UG_DrawArc"
      [] name = "Screen::draw_line" -> "UG_DrawLine"

AllSymbols == {"adc_io_open", "adc_io_close", "adc_io_InputGetAll", "adc_io_SetAll",
               "adc_io_Set", "adc_io_ModeSet", "mpu6500_dmp_init", "mpu_set_gyro_fsr",
               "lcd_open", "lcd_close", "LCD_Refresh", "UG_FillScreen",
               "ADC_GetAll", "adc_io_ModeGetAll", "mpu6500_Get_Accel", "mpu6500_Get_Gyro",
               "mpu6500_Get_Attitude", "mpu_get_gyro_fsr", "mpu_get_accel_fsr",
               "mpu_set_accel_fsr", "LCD_SetFont", "UG_SetForecolor", "UG_SetBackcolor",
               "adc_led_set", "UG_PutString", "UG_FillFrame", "UG_FillRoundFrame",
               "UG_FillCircle", "UG_DrawMesh", "UG_DrawFrame", "UG_DrawRoundFrame",
               "UG_DrawPixel", "UG_DrawCircle", "UG_DrawArc", "UG_DrawLine"}

\* The adapter methods run by an operation other than Screen::new: the
\* composite operations call other adapter methods, a fluent expression
\* screen.a(..).b(..) (the operation "Screen::chain", whose arguments are the
\* method calls) runs its methods from left to right, every other adapter is
\* one method.
RECURSIVE Methods(_)
\* A mutant of Methods: print writes at a cursor that moves down one row
\* with every string written.
MethodsPrintAtCursor(o) ==
    CASE o.name = "get_io_level" -> <<Op("io_get_all_channels", <<>>)>>
      [] o.name \in PureNames -> <<>>
      [] o.name = "Screen::set_led_0" -> <<Op("Screen::set_led_color", <<0, o.args[1]>>)>>
      [] o.name = "Screen::set_led_1" -> <<Op("Screen::set_led_color", <<1, o.args[1]>>)>>
      [] o.name = "Screen::set_all_leds_same" ->
            <<Op("Screen::set_led_color", <<0, o.args[1]>>),
              Op("Screen::set_led_color", <<1, o.args[1]>>)>>
      [] o.name = "Screen::set_all_leds_single" ->
            <<Op("Screen::set_led_color", <<0, o.args[1]>>),
              Op("Screen::set_led_color", <<1, o.args[2]>>)>>
      [] o.name = "Screen::set_all_leds_off" ->
            <<Op("Screen::set_led_color", <<0, 0>>), Op("Screen::set_led_color", <<1, 0>>)>>
      [] o.name = "Screen::print" ->
            <<Op("Screen::put_string",
                 <<0, row_height(DefaultFont) * Len(calls[1]), o.args[1]>>)>>
      [] o.name = "Screen::chain" ->
            IF o.args = <<>> THEN <<>>
            ELSE Methods(Head(o.args)) \o Methods(Op("Screen::chain", Tail(o.args)))
      [] OTHER -> <<o>>

Methods(o) ==
    CASE o.name = "get_io_level" -> <<Op("io_get_all_channels", <<>>)>>
      [] o.name \in PureNames -> <<>>
      [] o.name = "Screen::set_led_0" -> <<Op("Screen::set_led_color", <<0, o.args[1]>>)>>
      [] o.name = "Screen::set_led_1" -> <<Op("Screen::set_led_color", <<1, o.args[1]>>)>>
      [] o.name = "Screen::set_all_leds_same" ->
            <<Op("Screen::set_led_color", <<0, o.args[1]>>),
              Op("Screen::set_led_color", <<1, o.args[1]>>)>>
      [] o.name = "Screen::set_all_leds_single" ->
            <<Op("Screen::set_led_color", <<0, o.args[1]>>),
              Op("Screen::set_led_color", <<1, o.args[2]>>)>>
      [] o.name = "Screen::set_all_leds_off" ->
            <<Op("Screen::set_led_color", <<0, 0>>), Op("Screen::set_led_color", <<1, 0>>)>>
      [] o.name = "Screen::print" -> <<Op("Screen::put_string", <<0, 0, o.args[1]>>)>>
      [] o.name = "Screen::chain" ->
            IF o.args = <<>> THEN <<>>
            ELSE Methods(Head(o.args)) \o Methods(Op("Screen::chain", Tail(o.args)))
      [] OTHER -> <<o>>

\* A mutant of Chain: Screen::new opens the display whatever its argument.
ChainAlwaysOpens(o) ==
    IF o.name = "Screen::new"
    THEN <<Op("Screen::open", <<o.args[1]>>), Op("Screen::fill_screen", <<BLACK>>),
           Op("Screen::refresh", <<>>)>>
    ELSE Methods(o)

\* A mutant of Chain: a fluent expression runs its methods from right to left.
ChainRightToLeft(o) ==
    IF o.name = "Screen::new"
    THEN IF o.args[1] = None THEN <<>>
         ELSE <<Op("Screen::open", <<o.args[1]>>), Op("Screen::fill_screen", <<BLACK>>),
                Op("Screen::refresh", <<>>)>>
    ELSE IF o.name = "Screen::chain" THEN Methods(o.args[2]) \o Methods(o.args[1])
    ELSE Methods(o)

\* A mutant of Chain: Screen::new clears the frame buffer before it opens the
\* display.
ChainNewFillsFirst(o) ==
    IF o.name = "Screen::new"
    THEN IF o.args[1] = None THEN <<>>
         ELSE <<Op("Screen::fill_screen", <<BLACK>>), Op("Screen::open", <<o.args[1]>>),
                Op("Screen::refresh", <<>>)>>
    ELSE Methods(o)

\* A mutant of Chain: adc_close calls its entry point a second time.
ChainRetriesClose(o) ==
    IF o.name = "Screen::new"
    THEN IF o.args[1] = None THEN <<>>
         ELSE <<Op("Screen::open", <<o.args[1]>>), Op("Screen::fill_screen", <<BLACK>>),
                Op("Screen::refresh", <<>>)>>
    ELSE IF o.name = "adc_close" THEN <<o, o>>
    ELSE Methods(o)

\* The adapter methods an operation runs, in order.  Each one dereferences
\* LIBRARY, resolves its symbol and calls it.
Chain(o) ==
    IF o.name = "Screen::new"
    THEN IF o.args[1] = None THEN <<>>
         ELSE <<Op("Screen::open", <<o.args[1]>>), Op("Screen::fill_screen", <<BLACK>>),
                Op("Screen::refresh", <<>>)>>
    ELSE Methods(o)

\* The symbols the operations of ops look up.
UsedSymbols(ops) == UNION {{Sym(Chain(o)[i].name) : i \in DOMAIN Chain(o)} : o \in ops}

\* The export table of the embedded module: complete, or lacking one symbol
\* (a module of another version).  Only the symbols the callers look up are
\* told apart: a module lacking another symbol behaves as a complete one.
ExportChoices(syms) == {AllSymbols} \cup {AllSymbols \ {s} : s \in syms}

\* Values a native entry point may return.
NativeRets == {-1, 0, 1}

RetDomain(sym) == IF sym = "adc_io_InputGetAll" THEN 0..255 ELSE NativeRets

\* A mutant of ShiftOutcomes: the last channel is taken to be out of range.
ShiftOutcomesOffByOne(i) == IF i < 7 THEN {i} ELSE {-1, i % 8}

\* What the shift of get_io_level does with its index: in range it shifts by
\* the index; out of range the build decides (overflow check: panic, shown as
\* -1; no check: the shift amount is taken modulo 8).
ShiftOutcomes(i) == IF i < 8 THEN {i} ELSE {-1, i % 8}

\* A mutant of get_io_level: the mask is shifted left, then truncated to u8.
LevelOfShl(m, k) == BitAnd((m * 2^k) % 256, 1)

\* get_io_level: (mask >> index) & 1
LevelOf(m, k) == BitAnd(ShrU8(m, k), 1)

\* The value a pure operation returns.
PureResult(o) ==
    CASE o.name = "ScreenDirection::width" -> <<width(o.args[1])>>
      [] o.name = "ScreenDirection::height" -> <<height(o.args[1])>>
      [] o.name = "FontSize::row_height" -> <<row_height(o.args[1])>>
      [] o.name = "FontSize::column_width" -> <<column_width(o.args[1])>>
      [] o.name = "Color::new_color" -> <<new_color(o.args[1], o.args[2], o.args[3])>>
      [] o.name = "Screen::new" -> <<0, 0, DefaultFont, o.args[1]>>

\* A mutant of ErrsOf: adc_close forgets its error record.
ErrsOfSilentClose(name, r) ==
    CASE name \in {"adc_open", "flip_io_level"} ->
            IF r = -1 THEN 1 ELSE 0
      [] name \in {"set_all_io_levels", "set_io_mode", "mpu6500_open",
                    "adc_get_all_channels", "get_all_io_mode"} ->
            IF r # 0 THEN 1 ELSE 0
      [] OTHER -> 0

\* A mutant of ErrsOf: adc_open takes every nonzero return for a failure.
ErrsOfOpenNonzero(name, r) ==
    CASE name \in {"adc_close", "flip_io_level"} ->
            IF r = -1 THEN 1 ELSE 0
      [] name \in {"adc_open", "set_all_io_levels", "set_io_mode", "mpu6500_open",
                    "adc_get_all_channels", "get_all_io_mode"} ->
            IF r # 0 THEN 1 ELSE 0
      [] OTHER -> 0

\* Number of error! records an adapter method writes for native return r.
ErrsOf(name, r) ==
    CASE name \in {"adc_open", "adc_close", "flip_io_level"} ->
            IF r = -1 THEN 1 ELSE 0
      [] name \in {"set_all_io_levels", "set_io_mode", "mpu6500_open",
                    "adc_get_all_channels", "get_all_io_mode"} ->
            IF r # 0 THEN 1 ELSE 0
      [] OTHER -> 0

\* The methods of Screen that return &mut Self.
ScreenMethods ==
    {"Screen::open", "Screen::close", "Screen::refresh", "Screen::fill_screen",
     "Screen::set_font_size", "Screen::set_fore_color", "Screen::set_back_color",
     "Screen::set_led_color", "Screen::set_led_0", "Screen::set_led_1",
     "Screen::set_all_leds_same", "Screen::set_all_leds_single", "Screen::set_all_leds_off",
     "Screen::put_string", "Screen::print", "Screen::fill_frame", "Screen::fill_round_frame",
     "Screen::fill_circle", "Screen::draw_mesh", "Screen::draw_frame",
     "Screen::draw_round_frame", "Screen::draw_pixel", "Screen::draw_circle",
     "Screen::draw_arc", "Screen::draw_line", "Screen::chain"}

\* A mutant of ResultOf: the binding remembers that the channel was closed
\* and refuses the read.
ResultOfRefusesAfterClose(o, r, k) ==
    CASE o.name = "get_io_level" -> <<LevelOf(r, k)>>
      [] o.name = "Screen::new" -> <<0, 0, DefaultFont, o.args[1]>>
      [] o.name = "adc_get_all_channels" ->
            IF r # 0 \/ prev = "adc_close"
            THEN <<"Err", "Failed to get all ADC channels">> ELSE <<"Ok">>
      [] o.name \in ScreenMethods -> <<"self">>
      [] OTHER -> <<r>>

\* A mutant of ResultOf: adc_get_all_channels takes only negative codes for
\* failures.
ResultOfNegativeOnly(o, r, k) ==
    CASE o.name = "get_io_level" -> <<LevelOf(r, k)>>
      [] o.name = "Screen::new" -> <<0, 0, DefaultFont, o.args[1]>>
      [] o.name = "adc_get_all_channels" ->
            IF r < 0 THEN <<"Err", "Failed to get all ADC channels">> ELSE <<"Ok">>
      [] o.name \in ScreenMethods -> <<"self">>
      [] OTHER -> <<r>>

\* The value an adapter operation returns, given the native return value r of
\* its last call and the shift amount k (get_io_level only).
ResultOf(o, r, k) ==
    CASE o.name = "get_io_level" -> <<LevelOf(r, k)>>
      [] o.name = "Screen::new" -> <<0, 0, DefaultFont, o.args[1]>>
      [] o.name = "adc_get_all_channels" ->
            IF r # 0 THEN <<"Err", "Failed to get all ADC channels">> ELSE <<"Ok">>
      [] o.name \in ScreenMethods -> <<"self">>
      [] OTHER -> <<r>>

\* Screen::new: Screen { screen_size: (0, 0), font_size: FontSize::Font12x20, screen_dir }
ScreenLiteral(d) == <<0, 0, DefaultFont, d>>

\* The Screen an operation works on when it starts, s being the Screen the
\* caller owns: Screen::new builds its own, a method borrows the caller's,
\* any other operation has none.
SelfAtBegin(s, o) ==
    IF o.name = "Screen::new" THEN ScreenLiteral(o.args[1])
    ELSE IF o.name \in ScreenMethods THEN s
    ELSE <<>>

\* The assignments an adapter method makes to self before it touches LIBRARY:
\* set_font_size stores the font size first.
SelfBefore(s, m) ==
    IF m.name = "Screen::set_font_size" THEN [s EXCEPT ![3] = m.args[1]] ELSE s

\* Mutants of SelfAfter.
\* close forgets the direction.
SelfAfterCloseResets(s, m, r) ==
    IF m.name = "Screen::open" THEN [s EXCEPT ![4] = m.args[1]]
    ELSE IF m.name = "Screen::close" THEN [s EXCEPT ![4] = None]
    ELSE s

\* open records the direction only when lcd_open reported success.
SelfAfterOpenOnSuccess(s, m, r) ==
    IF m.name = "Screen::open" /\ r = 0 THEN [s EXCEPT ![4] = m.args[1]] ELSE s

\* open also records the size of the screen in that direction.
SelfAfterOpenSetsSize(s, m, r) ==
    IF m.name = "Screen::open"
    THEN [s EXCEPT ![1] = width(m.args[1]), ![2] = height(m.args[1]), ![4] = m.args[1]]
    ELSE s

\* The assignments an adapter method makes to self after its native call
\* returned r: open stores the direction; no method looks at r.
SelfAfter(s, m, r) ==
    IF m.name = "Screen::open" THEN [s EXCEPT ![4] = m.args[1]] ELSE s

\* The thread's Screen after an operation that worked on sf has returned or
\* panicked: what a method assigned through its borrow stays.  The Screen that
\* Screen::new builds is a value of its own: it is handed to the caller (or
\* dropped by the panic) and does not replace the thread's Screen.
ScreenAfter(s, o, sf) ==
    IF o.name \in ScreenMethods THEN sf ELSE s

\* The adapters that hand the caller's array to the native call, and the
\* getters that hand it a local variable and return that variable.
BufferReads == {"adc_get_all_channels", "mpu6500_get_accel", "mpu6500_get_gyro",
                "mpu6500_get_attitude"}

LocalGetters == {"get_all_io_mode", "mpu_get_gyro_fsr", "mpu_get_accel_fsr"}

\* The buffer an operation hands to its native call, as it is before the call:
\* the caller's array (the operation's argument) or a local initialised to 0.
InitBuf(o) ==
    IF o.name \in BufferReads THEN o.args[1]
    ELSE IF o.name \in LocalGetters THEN <<0>>
    ELSE <<>>

\* What the native call may leave in a buffer that held b: nothing written,
\* every element written, or only the first one.
NativeWrites(b) ==
    IF b = <<>> THEN {b}
    ELSE {b, [i \in DOMAIN b |-> 11 * i], [b EXCEPT ![1] = 99]}

\* A mutant of BufAfter: the adapter zeroes the array when the call failed.
BufAfterZeroOnError(name, r, w) ==
    IF name = "adc_get_all_channels" /\ r # 0 THEN [i \in DOMAIN w |-> 0] ELSE w

\* The buffer after the adapter's own code has run, from the native return
\* value r and what the native call left (w): no adapter writes the buffer.
BufAfter(name, r, w) == w

\* A mutant of Returned: a getter whose native call failed returns the code.
ReturnedCodeOnFailure(o, r, k, w) ==
    IF o.name \in LocalGetters THEN (IF r # 0 THEN <<r>> ELSE <<w[1]>>) ELSE ResultOf(o, r, k)

\* The value the operation returns, w being the buffer after the call: the
\* getters return their local, every other adapter its ResultOf.
Returned(o, r, k, w) ==
    IF o.name \in LocalGetters THEN <<w[1]>> ELSE ResultOf(o, r, k)

\* A mutant of NativeArgs: set_all_io_levels keeps the low eight bits only.
NativeArgsMasked(m) ==
    CASE m.name \in BufferReads \cup LocalGetters -> <<"ptr">>
      [] m.name = "Screen::put_string" -> <<m.args[1], m.args[2], m.args[3] \o <<0>>>>
      [] m.name = "set_all_io_levels" -> <<m.args[1] % 256>>
      [] OTHER -> m.args

\* The arguments an adapter method hands to its native entry point.  The
\* casts (mode as i32 of a u8, direction as i32, font_size as i32) keep the
\* value; a buffer goes as a pointer; put_string hands over the C string, the
\* bytes of the text followed by the terminating 0.
NativeArgs(m) ==
    CASE m.name \in BufferReads \cup LocalGetters -> <<"ptr">>
      [] m.name = "Screen::put_string" -> <<m.args[1], m.args[2], m.args[3] \o <<0>>>>
      [] OTHER -> m.args

\* CString::new(display_string) fails when the text holds a 0 byte.
HasNul(str) == \E i \in DOMAIN str : str[i] = 0

\* Where an adapter method starts: put_string builds its C string before it
\* touches LIBRARY, every other method dereferences LIBRARY first.
Entry(m) == IF m.name = "Screen::put_string" THEN "cstring" ELSE "force"

\* ------------------------------------------------------------------ inputs
ByteSamples == {0, 1, 2, 3, 15, 16, 17, 63, 64, 127, 128, 129, 191, 240, 254, 255}

Directions == {Vertical, Horizontal}

Modes == {0, 1}

\* Channel indexes handed to the adapters: 0..7 and one index out of range.
IoIndexes == 0..NumChannels

PureOps ==
    {Op("ScreenDirection::width", <<d>>) : d \in Directions}
    \cup {Op("ScreenDirection::height", <<d>>) : d \in Directions}
    \cup {Op("FontSize::row_height", <<f>>) : f \in FontCodes}
    \cup {Op("FontSize::column_width", <<f>>) : f \in FontCodes}
    \cup {Op("Color::new_color", <<r, g, b>>) : r \in ByteSamples, g \in ByteSamples,
                                                b \in ByteSamples}

\* Operations of the sequential specification: the pure operations and the
\* adapters of adc_io.rs with their whole input range, one adapter of mpu.rs,
\* Screen::new and Screen methods that leave the Screen as it is.
SeqOps ==
    PureOps
    \cup {Op("Screen::new", <<d>>) : d \in {None} \cup Directions}
    \cup {Op(nm, <<>>) : nm \in {"adc_open", "adc_close", "io_get_all_channels",
                                 "mpu6500_open", "Screen::close", "Screen::refresh"}}
    \cup {Op("get_io_level", <<i>>) : i \in IoIndexes}
    \cup {Op("flip_io_level", <<i>>) : i \in IoIndexes}
    \cup {Op("set_all_io_levels", <<l>>) : l \in {0, 255, 256}}
    \cup {Op("set_all_io_mode", <<m>>) : m \in Modes}
    \cup {Op("set_io_mode", <<i, m>>) : i \in {0, 7, 8}, m \in Modes}
    \cup {Op("mpu_set_gyro_fsr", <<f>>) : f \in {250, 2000, 7}}
    \cup {Op("Screen::fill_screen", <<c>>) : c \in {BLACK, new_color(255, 255, 255)}}

\* Operations of the concurrent specification: one single-call adapter of each
\* module (adc_io, mpu, display) and one operation that uses no library.
ConcOps ==
    {Op("adc_open", <<>>), Op("mpu6500_open", <<>>), Op("Screen::refresh", <<>>),
     Op("Screen::new", <<None>>)}

\* Texts handed to put_string and print, as byte sequences: empty, "Hi", and
\* one with a 0 byte inside.
Texts == {<<>>, <<72, 105>>, <<65, 0, 66>>}

\* Contents of the caller's arrays before a read.
AdcBuffers == {[i \in 1..AdcChannels |-> 0], [i \in 1..AdcChannels |-> 7]}

AxisBuffers == {[i \in 1..Axes |-> 0], [i \in 1..Axes |-> 7]}

Colors == {BLACK, new_color(255, 128, 0)}

\* Single method calls on a Screen.
ScreenCalls ==
    {Op(nm, <<>>) : nm \in {"Screen::close", "Screen::refresh", "Screen::set_all_leds_off"}}
    \cup {Op("Screen::open", <<d>>) : d \in Directions}
    \cup {Op("Screen::set_font_size", <<f>>) : f \in {0, DefaultFont, 14}}
    \cup {Op(nm, <<c>>) : nm \in {"Screen::set_fore_color", "Screen::set_back_color",
                                  "Screen::fill_screen", "Screen::set_led_0",
                                  "Screen::set_led_1", "Screen::set_all_leds_same"},
                          c \in Colors}
    \cup {Op("Screen::set_led_color", <<i, c>>) : i \in {0, 1, 2}, c \in Colors}
    \cup {Op("Screen::set_all_leds_single", <<BLACK, c>>) : c \in Colors}
    \cup {Op("Screen::put_string", <<x, 5, str>>) : x \in {0, 130}, str \in Texts}
    \cup {Op("Screen::print", <<str>>) : str \in Texts}
    \cup {Op(nm, <<1, 2, 60, 30, c>>) : nm \in {"Screen::fill_frame", "Screen::draw_mesh",
                                                "Screen::draw_frame", "Screen::draw_arc",
                                                "Screen::draw_line"},
                                        c \in Colors}
    \cup {Op(nm, <<1, 2, 60, 30, 4, c>>) : nm \in {"Screen::fill_round_frame",
                                                   "Screen::draw_round_frame"},
                                           c \in Colors}
    \cup {Op(nm, <<30, 30, 9, c>>) : nm \in {"Screen::fill_circle", "Screen::draw_circle"},
                                     c \in Colors}
    \cup {Op("Screen::draw_pixel", <<x, 2, c>>) : x \in {-1, 1}, c \in Colors}

\* The method calls the fluent expressions are made of.
ChainCalls ==
    {Op("Screen::draw_pixel", <<1, 2, BLACK>>), Op("Screen::draw_line", <<1, 2, 60, 30, BLACK>>),
     Op("Screen::refresh", <<>>), Op("Screen::print", <<<<72, 105>>>>),
     Op("Screen::set_all_leds_off", <<>>)}

\* Operations of the device specification: every adapter of adc_io.rs, mpu.rs
\* and display.rs, the setters with values inside and outside the documented
\* ranges, and fluent expressions of two Screen methods.
DevOps ==
    {Op(nm, <<>>) : nm \in {"adc_open", "adc_close", "io_get_all_channels", "get_all_io_mode",
                            "mpu6500_open", "mpu_get_gyro_fsr", "mpu_get_accel_fsr"}}
    \cup {Op("adc_get_all_channels", <<b>>) : b \in AdcBuffers}
    \cup {Op(nm, <<b>>) : nm \in {"mpu6500_get_accel", "mpu6500_get_gyro",
                                  "mpu6500_get_attitude"},
                          b \in AxisBuffers}
    \cup {Op("get_io_level", <<i>>) : i \in {NumChannels - 1, NumChannels}}
    \cup {Op("flip_io_level", <<i>>) : i \in {0, NumChannels - 1, NumChannels, 4096}}
    \cup {Op("set_all_io_levels", <<l>>) : l \in {0, 255, 256, 65535}}
    \cup {Op("set_io_mode", <<i, m>>) : i \in {0, NumChannels}, m \in {0, 1, 255}}
    \cup {Op("set_all_io_mode", <<1>>)}
    \cup {Op("mpu_set_gyro_fsr", <<f>>) : f \in {250, 2000, 7}}
    \cup {Op("mpu_set_accel_fsr", <<f>>) : f \in {2, 16, 7, -1}}
    \cup {Op("Screen::new", <<d>>) : d \in Directions}
    \cup ScreenCalls
    \cup {Op("Screen::chain", <<a, b>>) : a \in ChainCalls, b \in ChainCalls}

\* The method calls the fluent expressions of the display specification are
\* made of.
SessionCalls ==
    {Op("Screen::open", <<Horizontal>>), Op("Screen::set_font_size", <<6>>),
     Op("Screen::close", <<>>), Op("Screen::refresh", <<>>),
     Op("Screen::print", <<<<72, 105>>>>)}

\* Operations of the display specification: the lookups of FontSize and
\* ScreenDirection, Screen::new, every Screen method, set_font_size with every
\* variant, and fluent expressions of two methods.
ScreenOps ==
    {Op("ScreenDirection::width", <<d>>) : d \in Directions}
    \cup {Op("ScreenDirection::height", <<d>>) : d \in Directions}
    \cup {Op("FontSize::row_height", <<f>>) : f \in FontCodes}
    \cup {Op("FontSize::column_width", <<f>>) : f \in FontCodes}
    \cup {Op("Screen::new", <<d>>) : d \in {None} \cup Directions}
    \cup ScreenCalls
    \cup {Op("Screen::set_font_size", <<f>>) : f \in FontCodes}
    \cup {Op("Screen::chain", <<a, b>>) : a \in SessionCalls, b \in SessionCalls}

\* The symbols a module loaded by the display specification may lack.
ScreenProbes == {"lcd_open", "LCD_SetFont"}

\* Operations of the interleaving specification.
IoOps == {Op("set_all_io_mode", <<m>>) : m \in Modes}

\* The two threads of the interleaving specification.
IoThreads == {1, NumThreads}

\* The symbols a module loaded by the device specification may lack.
DevProbes == {"adc_io_close", "UG_DrawLine"}

\* ------------------------------------------------------------------- Init
Init ==
    /\ cell = "incomplete"
    /\ initFn = TRUE
    /\ handle = 0
    /\ exports = {}
    /\ tmpFile = "none"
    /\ initRuns = 0
    /\ extractions = 0
    /\ loads = 0
    /\ pc = [t \in Threads |-> "idle"]
    /\ op = [t \in Threads |-> NoOp]
    /\ stage = [t \in Threads |-> 1]
    /\ index = [t \in Threads |-> 0]
    /\ failed = [t \in Threads |-> FALSE]
    /\ calls = [t \in Threads |-> <<>>]
    /\ result = [t \in Threads |-> <<>>]
    /\ errs = [t \in Threads |-> 0]
    /\ h = [t \in Threads |-> 0]
    /\ waited = [t \in Threads |-> FALSE]
    /\ begun = 0
    /\ adapterBegun = FALSE
    /\ returned = 0
    /\ nativeEntered = FALSE
    /\ mem = [t \in Threads |-> <<>>]
    /\ left = [t \in Threads |-> <<>>]
    /\ prev = "none"
    /\ chanMode = [i \in 0..(NumChannels - 1) |-> -1]
    /\ overlapped = FALSE
    /\ screen = [t \in Threads |-> ScreenLiteral(None)]
    /\ self = [t \in Threads |-> <<>>]

\* --------------------------------------------------- callers of the library
\* The adapter method the thread is in.
Prim(t) == Chain(op[t])[stage[t]]

\* A thread calls an operation that uses the library.
BeginAdapter(t, ops) ==
    /\ pc[t] = "idle"
    /\ begun < MaxOps
    /\ \E o \in ops :
        /\ Chain(o) # <<>>
        /\ op' = [op EXCEPT ![t] = o]
        /\ pc' = [pc EXCEPT ![t] = Entry(Chain(o)[1])]
        /\ mem' = [mem EXCEPT ![t] = InitBuf(o)]
        /\ self' = [self EXCEPT ![t] = SelfBefore(SelfAtBegin(screen[t], o), Chain(o)[1])]
    /\ begun' = begun + 1
    /\ adapterBegun' = TRUE
    /\ UNCHANGED <<left, prev, chanMode, overlapped, screen, libVars, returned, nativeEntered,
                   stage, index, failed, calls, result, errs, h, waited>>

\* A thread calls an operation that runs no adapter method: it computes its
\* value and returns.
CallPure(t, ops) ==
    /\ pc[t] = "idle"
    /\ begun < MaxOps
    /\ \E o \in ops :
        /\ Chain(o) = <<>>
        /\ op' = [op EXCEPT ![t] = o]
        /\ result' = [result EXCEPT ![t] = PureResult(o)]
        /\ self' = [self EXCEPT ![t] = SelfAtBegin(screen[t], o)]
    /\ pc' = [pc EXCEPT ![t] = "done"]
    /\ begun' = begun + 1
    /\ UNCHANGED <<devVars, screen, libVars, adapterBegun, returned, nativeEntered,
                   stage, index, failed, calls, errs, h, waited>>

\* The thread's locals before an operation.
Cleared(t) ==
    /\ pc' = [pc EXCEPT ![t] = "idle"]
    /\ op' = [op EXCEPT ![t] = NoOp]
    /\ stage' = [stage EXCEPT ![t] = 1]
    /\ index' = [index EXCEPT ![t] = 0]
    /\ failed' = [failed EXCEPT ![t] = FALSE]
    /\ calls' = [calls EXCEPT ![t] = <<>>]
    /\ result' = [result EXCEPT ![t] = <<>>]
    /\ errs' = [errs EXCEPT ![t] = 0]
    /\ h' = [h EXCEPT ![t] = 0]
    /\ waited' = [waited EXCEPT ![t] = FALSE]
    /\ mem' = [mem EXCEPT ![t] = <<>>]
    /\ left' = [left EXCEPT ![t] = <<>>]
    /\ self' = [self EXCEPT ![t] = <<>>]

\* The caller has taken the value of the finished operation.
Finish(t) ==
    /\ pc[t] = "done"
    /\ Cleared(t)
    /\ screen' = [screen EXCEPT ![t] = ScreenAfter(@, op[t], self[t])]
    /\ UNCHANGED <<libVars, histVars, prev, chanMode, overlapped>>

\* The caller catches the panic of an operation (or a fresh thread takes the
\* place of the one that died) and goes on.
Catch(t) ==
    /\ pc[t] = "panicked"
    /\ Cleared(t)
    /\ screen' = [screen EXCEPT ![t] = ScreenAfter(@, op[t], self[t])]
    /\ UNCHANGED <<libVars, histVars, prev, chanMode, overlapped>>

\* put_string: CString::new(display_string).expect("CString::new failed"),
\* before LIBRARY is touched.
CStringNew(t) ==
    /\ pc[t] = "cstring"
    /\ pc' = [pc EXCEPT ![t] = IF HasNul(Prim(t).args[3]) THEN "panicked" ELSE "force"]
    /\ UNCHANGED <<devVars, scrVars, libVars, histVars, op, stage, index, failed, calls, result, errs,
                   h, waited>>

\* The caller has taken the value of the finished operation; the history notes
\* which of adc_open and adc_close returned last.
FinishNoting(t) ==
    /\ pc[t] = "done"
    /\ Cleared(t)
    /\ prev' = IF op[t].name \in {"adc_open", "adc_close"} THEN op[t].name ELSE prev
    /\ screen' = [screen EXCEPT ![t] = ScreenAfter(@, op[t], self[t])]
    /\ UNCHANGED <<libVars, histVars, chanMode, overlapped>>

\* ------------------------------------------------ extern_lib.rs: LIBRARY
\* Mutants of ForceOutcome.
\* The handle sits behind a lock that a thread keeps while it uses the
\* library: a dereference waits while another thread is in an adapter.
ForceOutcomeLocked(c, f) ==
    IF c = "complete"
    THEN IF \E u \in Threads : pc[u] \in {"resolve", "call", "native"} THEN "wait" ELSE "ready"
    ELSE IF c = "running" THEN "wait"
    ELSE IF f THEN "init"
    ELSE "poisoned"

\* No once-guard: whoever finds the cell not complete runs the initializer.
ForceOutcomeNoOnce(c, f) == IF c = "complete" THEN "ready" ELSE "init"

\* No barrier: a thread that finds the initializer running goes on at once.
ForceOutcomeNoWait(c, f) ==
    IF c \in {"complete", "running"} THEN "ready"
    ELSE IF f THEN "init" ELSE "poisoned"

\* No caching: every dereference loads the module again.
ForceOutcomeReload(c, f) == IF c = "running" THEN "wait" ELSE "init"

\* The initializer is kept, so a failed bootstrap is tried again.
ForceOutcomeRetry(c, f) ==
    IF c = "complete" THEN "ready"
    ELSE IF c = "running" THEN "wait"
    ELSE "init"

\* What a dereference of LIBRARY does, from the cell's state c and whether the
\* Lazy still holds its initializer (f): use the stored value, wait for the
\* running initializer, run the initializer (the closure is taken out of the
\* Lazy first), or panic because an earlier run took the closure and failed.
ForceOutcome(c, f) ==
    IF c = "complete" THEN "ready"
    ELSE IF c = "running" THEN "wait"
    ELSE IF f THEN "init"
    ELSE "poisoned"

\* The library is loaded: the dereference yields the stored handle.
ForceReady(t) ==
    /\ pc[t] = "force"
    /\ ForceOutcome(cell, initFn) = "ready"
    /\ pc' = [pc EXCEPT ![t] = "resolve"]
    /\ h' = [h EXCEPT ![t] = handle]
    /\ UNCHANGED <<devVars, scrVars, libVars, histVars, op, stage, index, failed, calls, result, errs, waited>>

\* Another thread is running the initializer: the thread parks.
ForceWait(t) ==
    /\ pc[t] = "force"
    /\ ForceOutcome(cell, initFn) = "wait"
    /\ pc' = [pc EXCEPT ![t] = "wait"]
    /\ waited' = [waited EXCEPT ![t] = TRUE]
    /\ UNCHANGED <<devVars, scrVars, libVars, histVars, op, stage, index, failed, calls, result, errs, h>>

\* The initializer has left the cell (complete, or incomplete after a panic):
\* the parked thread wakes and looks at the cell again.
Wake(t) ==
    /\ pc[t] = "wait"
    /\ cell # "running"
    /\ pc' = [pc EXCEPT ![t] = "force"]
    /\ UNCHANGED <<devVars, scrVars, libVars, histVars, op, stage, index, failed, calls, result, errs, h, waited>>

\* The thread becomes the initializer and enters the closure of Lazy::new.
ForceInit(t) ==
    /\ pc[t] = "force"
    /\ ForceOutcome(cell, initFn) = "init"
    /\ cell' = "running"
    /\ initFn' = FALSE
    /\ initRuns' = initRuns + 1
    /\ pc' = [pc EXCEPT ![t] = "boot_create"]
    /\ UNCHANGED <<devVars, scrVars, handle, exports, tmpFile, extractions, loads, histVars,
                   op, stage, index, failed, calls, result, errs, h, waited>>

\* An earlier initializer failed: the dereference panics.
ForcePoisoned(t) ==
    /\ pc[t] = "force"
    /\ ForceOutcome(cell, initFn) = "poisoned"
    /\ pc' = [pc EXCEPT ![t] = "panicked"]
    /\ UNCHANGED <<devVars, scrVars, libVars, histVars, op, stage, index, failed, calls, result, errs, h, waited>>

\* NamedTempFile::new().expect(..)
BootCreate(t) ==
    /\ pc[t] = "boot_create"
    /\ \/ /\ tmpFile' = "empty"
          /\ extractions' = extractions + 1
          /\ pc' = [pc EXCEPT ![t] = "boot_write"]
          /\ UNCHANGED cell
       \/ /\ cell' = "incomplete"
          /\ pc' = [pc EXCEPT ![t] = "panicked"]
          /\ UNCHANGED <<tmpFile, extractions>>
    /\ UNCHANGED <<devVars, scrVars, initFn, handle, exports, initRuns, loads, histVars,
                   op, stage, index, failed, calls, result, errs, h, waited>>

\* A mutant of BootWrite: the file is persisted, so a failed write leaves it.
BootWriteLeavesFile(t) ==
    /\ pc[t] = "boot_write"
    /\ \/ /\ tmpFile' = "written"
          /\ pc' = [pc EXCEPT ![t] = "boot_load"]
          /\ UNCHANGED cell
       \/ /\ cell' = "incomplete"
          /\ pc' = [pc EXCEPT ![t] = "panicked"]
          /\ UNCHANGED tmpFile
    /\ UNCHANGED <<devVars, scrVars, initFn, handle, exports, initRuns, extractions, loads,
                   histVars, op, stage, index, failed, calls, result, errs, h, waited>>

\* tmp_file.write_all(so_bytes).expect(..); the panic drops the NamedTempFile,
\* which removes the file.
BootWrite(t) ==
    /\ pc[t] = "boot_write"
    /\ \/ /\ tmpFile' = "written"
          /\ pc' = [pc EXCEPT ![t] = "boot_load"]
          /\ UNCHANGED cell
       \/ /\ tmpFile' = "removed"
          /\ cell' = "incomplete"
          /\ pc' = [pc EXCEPT ![t] = "panicked"]
    /\ UNCHANGED <<devVars, scrVars, initFn, handle, exports, initRuns, extractions, loads, histVars,
                   op, stage, index, failed, calls, result, errs, h, waited>>

\* Library::new(so_path.as_os_str()).expect(..); the panic drops the TempPath,
\* which removes the file.
BootLoad(t, syms) ==
    /\ pc[t] = "boot_load"
    /\ \/ /\ handle' = loads + 1
          /\ loads' = loads + 1
          /\ \E e \in ExportChoices(syms) : exports' = e
          /\ pc' = [pc EXCEPT ![t] = "boot_drop"]
          /\ UNCHANGED <<cell, tmpFile>>
       \/ /\ tmpFile' = "removed"
          /\ cell' = "incomplete"
          /\ pc' = [pc EXCEPT ![t] = "panicked"]
          /\ UNCHANGED <<handle, exports, loads>>
    /\ UNCHANGED <<devVars, scrVars, initFn, initRuns, extractions, histVars,
                   op, stage, index, failed, calls, result, errs, h, waited>>

\* The closure returns: so_path goes out of scope (the file is removed), the
\* Library is stored in the cell, the cell is complete and the waiters wake.
BootDrop(t) ==
    /\ pc[t] = "boot_drop"
    /\ tmpFile' = "removed"
    /\ cell' = "complete"
    /\ pc' = [pc EXCEPT ![t] = "resolve"]
    /\ h' = [h EXCEPT ![t] = handle]
    /\ UNCHANGED <<devVars, scrVars, initFn, handle, exports, initRuns, extractions, loads, histVars,
                   op, stage, index, failed, calls, result, errs, waited>>

\* ---------------------------------------------------------------- adapters
\* A mutant of SymbolFound: a missing symbol is not noticed.
SymbolFoundAlways(sym) == TRUE

\* LIBRARY.get(name): whether the loaded module exports the symbol.
SymbolFound(sym) == sym \in exports

\* LIBRARY.get(b"..").expect(..): the symbol is found.
Resolve(t) ==
    /\ pc[t] = "resolve"
    /\ SymbolFound(Sym(Prim(t).name))
    /\ pc' = [pc EXCEPT ![t] = "call"]
    /\ UNCHANGED <<devVars, scrVars, libVars, histVars, op, stage, index, failed, calls, result, errs, h, waited>>

\* LIBRARY.get(b"..").expect(..): the symbol is missing and the adapter panics.
ResolveMissing(t) ==
    /\ pc[t] = "resolve"
    /\ ~SymbolFound(Sym(Prim(t).name))
    /\ pc' = [pc EXCEPT ![t] = "panicked"]
    /\ UNCHANGED <<devVars, scrVars, libVars, histVars, op, stage, index, failed, calls, result, errs, h, waited>>

Invocation(sym, args, r) == [sym |-> sym, args |-> args, ret |-> r]

\* An adapter method of a chain that is not the last one: it calls its native
\* entry point, drops the return value and the next method starts.
CallChained(t) ==
    /\ pc[t] = "call"
    /\ Prim(t).name # "set_all_io_mode"
    /\ stage[t] < Len(Chain(op[t]))
    /\ \E r \in RetDomain(Sym(Prim(t).name)) :
        /\ calls' = [calls EXCEPT ![t] =
                        Append(@, Invocation(Sym(Prim(t).name), NativeArgs(Prim(t)), r))]
        /\ errs' = [errs EXCEPT ![t] = @ + ErrsOf(Prim(t).name, r)]
        /\ self' = [self EXCEPT ![t] =
                       SelfBefore(SelfAfter(@, Prim(t), r), Chain(op[t])[stage[t] + 1])]
    /\ stage' = [stage EXCEPT ![t] = @ + 1]
    /\ pc' = [pc EXCEPT ![t] = Entry(Chain(op[t])[stage[t] + 1])]
    /\ nativeEntered' = TRUE
    /\ UNCHANGED <<devVars, screen, libVars, begun, adapterBegun, returned, op, index, failed, result, h, waited>>

\* The last (or only) adapter method of an operation: it calls its native
\* entry point once, logs an error where the code does, and the operation
\* returns.  get_io_level shifts the mask it got, which may panic.
CallReturn(t) ==
    /\ pc[t] = "call"
    /\ Prim(t).name # "set_all_io_mode"
    /\ stage[t] = Len(Chain(op[t]))
    /\ \E r \in RetDomain(Sym(Prim(t).name)) :
        /\ calls' = [calls EXCEPT ![t] =
                        Append(@, Invocation(Sym(Prim(t).name), NativeArgs(Prim(t)), r))]
        /\ errs' = [errs EXCEPT ![t] = @ + ErrsOf(Prim(t).name, r)]
        /\ self' = [self EXCEPT ![t] = SelfAfter(@, Prim(t), r)]
        /\ \E w \in NativeWrites(mem[t]) :
            /\ left' = [left EXCEPT ![t] = w]
            /\ mem' = [mem EXCEPT ![t] = BufAfter(Prim(t).name, r, w)]
            /\ \E k \in (IF op[t].name = "get_io_level"
                         THEN ShiftOutcomes(op[t].args[1]) ELSE {0}) :
                IF k = -1
                THEN /\ pc' = [pc EXCEPT ![t] = "panicked"]
                     /\ UNCHANGED <<result, returned>>
                ELSE /\ pc' = [pc EXCEPT ![t] = "done"]
                     /\ result' = [result EXCEPT ![t] =
                                      Returned(op[t], r, k, BufAfter(Prim(t).name, r, w))]
                     /\ returned' = returned + 1
    /\ nativeEntered' = TRUE
    /\ UNCHANGED <<prev, chanMode, overlapped, screen, libVars, begun, adapterBegun,
                   op, stage, index, failed, h, waited>>

\* A mutant of LoopContinues: the loop stops at the first failure.
LoopStopsOnFailure(i, f) == i < NumChannels /\ ~f

\* set_all_io_mode: for index in 0..8
LoopContinues(i, f) == i < NumChannels

\* A mutant of FailedAfter: only the last call's outcome is kept.
FailedAfterLastOnly(f, r) == r # 0

\* set_all_io_mode: if adc_io_mode_set(index, mode as i32) != 0 { failed = true; }
FailedAfter(f, r) == f \/ r # 0

\* One iteration of the loop of set_all_io_mode.
SetAllIter(t) ==
    /\ pc[t] = "call"
    /\ Prim(t).name = "set_all_io_mode"
    /\ LoopContinues(index[t], failed[t])
    /\ \E r \in NativeRets :
        /\ calls' = [calls EXCEPT ![t] =
                        Append(@, Invocation("adc_io_ModeSet",
                                             <<index[t], op[t].args[1]>>, r))]
        /\ failed' = [failed EXCEPT ![t] = FailedAfter(@, r)]
    /\ index' = [index EXCEPT ![t] = @ + 1]
    /\ nativeEntered' = TRUE
    /\ UNCHANGED <<devVars, scrVars, libVars, begun, adapterBegun, returned, pc, op, stage, result, errs, h, waited>>

\* set_all_io_mode, one iteration in two steps: the thread enters
\* adc_io_ModeSet(index, mode) ...
ModeSetEnter(t) ==
    /\ pc[t] = "call"
    /\ Prim(t).name = "set_all_io_mode"
    /\ LoopContinues(index[t], failed[t])
    /\ pc' = [pc EXCEPT ![t] = "native"]
    /\ overlapped' = (overlapped \/ \E u \in Threads \ {t} : pc[u] = "native")
    /\ nativeEntered' = TRUE
    /\ UNCHANGED <<mem, left, prev, chanMode, scrVars, libVars, begun, adapterBegun, returned,
                   op, stage, index, failed, calls, result, errs, h, waited>>

\* ... and the native call sets the channel's mode and returns 0 (a board
\* that accepts every call), after which the loop goes on.
ModeSetLeave(t) ==
    /\ pc[t] = "native"
    /\ chanMode' = [chanMode EXCEPT ![index[t]] = op[t].args[1]]
    /\ calls' = [calls EXCEPT ![t] =
                    Append(@, Invocation("adc_io_ModeSet", <<index[t], op[t].args[1]>>, 0))]
    /\ failed' = [failed EXCEPT ![t] = FailedAfter(@, 0)]
    /\ index' = [index EXCEPT ![t] = @ + 1]
    /\ pc' = [pc EXCEPT ![t] = "call"]
    /\ UNCHANGED <<mem, left, prev, overlapped, scrVars, libVars, histVars,
                   op, stage, result, errs, h, waited>>

\* The loop of set_all_io_mode is over: one error record and -1 if a call
\* failed, 0 otherwise.
SetAllReturn(t) ==
    /\ pc[t] = "call"
    /\ Prim(t).name = "set_all_io_mode"
    /\ ~LoopContinues(index[t], failed[t])
    /\ result' = [result EXCEPT ![t] = IF failed[t] THEN <<-1>> ELSE <<0>>]
    /\ errs' = [errs EXCEPT ![t] = IF failed[t] THEN 1 ELSE 0]
    /\ pc' = [pc EXCEPT ![t] = "done"]
    /\ returned' = returned + 1
    /\ UNCHANGED <<devVars, scrVars, libVars, begun, adapterBegun, nativeEntered, op, stage, index, failed, calls, h, waited>>

\* ------------------------------------------------------- specifications
\* What one thread can do, when its callers pick operations from ops.
Step(t, ops) ==
    \/ BeginAdapter(t, ops)
    \/ CallPure(t, ops)
    \/ Finish(t)
    \/ Catch(t)
    \/ ForceReady(t)
    \/ ForceInit(t)
    \/ ForcePoisoned(t)
    \/ BootCreate(t)
    \/ BootWrite(t)
    \/ BootLoad(t, UsedSymbols(ops))
    \/ BootDrop(t)
    \/ Resolve(t)
    \/ ResolveMissing(t)
    \/ CallReturn(t)

\* Threads of one process making their calls concurrently; every operation
\* of ConcOps runs at most one adapter method.
Next == \E t \in Threads : Step(t, ConcOps) \/ ForceWait(t) \/ Wake(t)

Spec == Init /\ [][Next]_vars

\* One thread making its calls one after the other, over every operation (a
\* single thread never finds the initializer running, so it never parks),
\* the multi-call operations Screen::new and set_all_io_mode included.
NextSeq == Step(1, SeqOps) \/ CallChained(1) \/ SetAllIter(1) \/ SetAllReturn(1)

SpecSeq == Init /\ [][NextSeq]_vars

\* One thread calling the device adapters one after the other.
NextDev ==
    \/ BeginAdapter(1, DevOps)
    \/ CStringNew(1)
    \/ FinishNoting(1)
    \/ Catch(1)
    \/ ForceReady(1)
    \/ ForceInit(1)
    \/ ForcePoisoned(1)
    \/ BootCreate(1)
    \/ BootWrite(1)
    \/ BootLoad(1, DevProbes)
    \/ BootDrop(1)
    \/ Resolve(1)
    \/ ResolveMissing(1)
    \/ CallChained(1)
    \/ CallReturn(1)
    \/ SetAllIter(1)
    \/ SetAllReturn(1)

SpecDev == Init /\ [][NextDev]_vars

\* One thread working with one Screen.
NextScreen ==
    \/ BeginAdapter(1, ScreenOps)
    \/ CallPure(1, ScreenOps)
    \/ CStringNew(1)
    \/ Finish(1)
    \/ Catch(1)
    \/ ForceReady(1)
    \/ ForceInit(1)
    \/ ForcePoisoned(1)
    \/ BootCreate(1)
    \/ BootWrite(1)
    \/ BootLoad(1, ScreenProbes)
    \/ BootDrop(1)
    \/ Resolve(1)
    \/ ResolveMissing(1)
    \/ CallChained(1)
    \/ CallReturn(1)

SpecScreen == Init /\ [][NextScreen]_vars

\* Two threads calling set_all_io_mode concurrently, every native call taking
\* two steps.
NextIo ==
    \E t \in IoThreads :
        \/ BeginAdapter(t, IoOps)
        \/ Finish(t)
        \/ Catch(t)
        \/ ForceReady(t)
        \/ ForceWait(t)
        \/ Wake(t)
        \/ ForceInit(t)
        \/ ForcePoisoned(t)
        \/ BootCreate(t)
        \/ BootWrite(t)
        \/ BootLoad(t, UsedSymbols(IoOps))
        \/ BootDrop(t)
        \/ Resolve(t)
        \/ ResolveMissing(t)
        \/ ModeSetEnter(t)
        \/ ModeSetLeave(t)
        \/ SetAllReturn(t)

SpecIo == Init /\ [][NextIo]_vars

\* ------------------------------------------------------------------ claims
\* An adapter operation: one that runs at least one adapter method.
InAdapter(t) == op[t] # NoOp /\ Chain(op[t]) # <<>>

\* C1: the initializer of LIBRARY (create the temporary file, write the
\* payload, load the module) never runs more than once in a process, however
\* the threads' first calls interleave, and once any adapter call has returned
\* it has run exactly once.
C1_InitializerRunsOnce ==
    /\ initRuns <= 1
    /\ extractions <= 1
    /\ loads <= 1
    /\ returned > 0 => initRuns = 1 /\ extractions = 1 /\ loads = 1

\* Every thread made its first call while the library was not yet loaded, one
\* of them parked behind the initializer, and all their calls returned.
C1_Witness ==
    /\ begun = NumThreads
    /\ returned = NumThreads
    /\ \A t \in Threads : pc[t] = "done" /\ calls[t] # <<>>
    /\ \E t \in Threads : waited[t]
    /\ initRuns = 1

\* C2: no thread resolves a symbol or is inside a native call unless the
\* initializer has finished (the cell is complete and holds a handle), a
\* thread that finds the initializer running stays parked until the cell is
\* left, and every thread that gets past the dereference holds the one handle.
C2_InitBarrier ==
    [][/\ \A t \in Threads :
            pc'[t] \in {"resolve", "call"} \/ (pc'[t] = "done" /\ calls'[t] # <<>>)
                => cell' = "complete" /\ handle' # 0 /\ h'[t] = handle'
       /\ nativeEntered' => cell' = "complete"
       /\ \A t \in Threads :
            pc[t] = "wait" /\ cell' = "running" => pc'[t] = "wait" /\ calls'[t] = <<>>
      ]_vars

\* A thread that parked while another one was initializing is now inside its
\* adapter with the handle the initializer stored.
C2_Witness ==
    \E t \in Threads :
        /\ waited[t]
        /\ pc[t] = "call"
        /\ cell = "complete"
        /\ h[t] = handle
        /\ handle = 1

\* C3: once the bootstrap has succeeded the cell stays complete, the handle
\* is never replaced or dropped, no further temporary file is created and no
\* further load happens, whatever adapters are called afterwards, and every
\* dereference yields that handle.
C3_HandleStable ==
    [][cell = "complete" =>
        /\ cell' = "complete"
        /\ handle # 0
        /\ handle' = handle
        /\ exports' = exports
        /\ initRuns' = initRuns
        /\ extractions' = extractions
        /\ loads' = loads
        /\ \A t \in Threads : pc'[t] \in {"resolve", "call"} => h'[t] = handle
      ]_vars

\* Adapters of different modules have returned one after the other on the
\* same handle.
C3_Witness ==
    /\ returned = MaxOps
    /\ cell = "complete"
    /\ \E t, u \in Threads :
        /\ pc[t] = "done" /\ op[t].name = "mpu6500_open" /\ h[t] = handle
        /\ pc[u] = "done" /\ op[u].name = "Screen::refresh" /\ h[u] = handle
    /\ loads = 1

\* The bootstrap has failed: the cell is incomplete again and the Lazy has
\* lost its initializer.
BootFailed == cell = "incomplete" /\ ~initFn

\* C4: a failed bootstrap makes the initializing call panic; afterwards the
\* initializer is never run again, every adapter call that dereferences
\* LIBRARY panics, no call returns and no native entry point is invoked.
C4_BootFailureIsFinal ==
    [][/\ cell = "running" /\ cell' = "incomplete" =>
            \E t \in Threads : pc[t] \in {"boot_create", "boot_write", "boot_load"}
                               /\ pc'[t] = "panicked"
       /\ BootFailed =>
            /\ BootFailed'
            /\ initRuns' = 1 /\ extractions' = extractions /\ loads' = 0
            /\ handle' = 0
            /\ ~nativeEntered' /\ returned' = 0
            /\ \A t \in Threads :
                /\ pc'[t] \notin {"boot_create", "boot_write", "boot_load", "boot_drop",
                                  "resolve", "call"}
                /\ pc[t] = "force" => pc'[t] \in {"force", "panicked"}
                /\ pc'[t] = "done" => calls'[t] = <<>> /\ ~InAdapter(t)'
      ]_vars

\* The load of the module failed; the initializing call and a later adapter
\* call have both panicked.
C4_Witness ==
    /\ BootFailed
    /\ extractions = 1
    /\ begun = MaxOps
    /\ \A t \in Threads : pc[t] = "panicked" /\ InAdapter(t)
    /\ \E t \in Threads : waited[t] = FALSE

\* The operations the claim names as pure.
C5_IsPure(o) ==
    \/ o.name \in {"ScreenDirection::width", "ScreenDirection::height",
                   "FontSize::row_height", "FontSize::column_width", "Color::new_color"}
    \/ o.name = "Screen::new" /\ o.args = <<None>>

\* C5: nothing is extracted or loaded before the first adapter call, and the
\* pure operations (width, height, row_height, column_width, new_color,
\* Screen::new(None)) finish without dereferencing LIBRARY and without a
\* native call.
C5_LazyAndPure ==
    /\ ~adapterBegun =>
        /\ cell = "incomplete" /\ initFn
        /\ initRuns = 0 /\ extractions = 0 /\ loads = 0
        /\ handle = 0 /\ tmpFile = "none"
        /\ ~nativeEntered
    /\ \A t \in Threads :
        C5_IsPure(op[t]) => pc[t] = "done" /\ calls[t] = <<>> /\ h[t] = 0 /\ ~waited[t]

\* Only pure operations were called, the last one Screen::new(None), and the
\* library is still untouched.
C5_Witness ==
    /\ begun = MaxOps
    /\ ~adapterBegun
    /\ cell = "incomplete" /\ initFn /\ tmpFile = "none"
    /\ pc[1] = "done"
    /\ op[1] = Op("Screen::new", <<None>>)
    /\ result[1] = <<0, 0, DefaultFont, None>>

\* The calls of the thread's current operation into the native symbol sym.
CallsInto(t, sym) == {i \in DOMAIN calls[t] : calls[t][i].sym = sym}

\* C6: when the loaded module lacks the symbol of an adapter method, the
\* operation never gets past that method's lookup: it panics there, returns
\* no value (no sentinel) and has made no call into that symbol; for
\* set_all_io_mode no channel's mode-set call is made at all.
C6_MissingSymbolPanics ==
    \A t \in Threads :
        InAdapter(t) /\ handle # 0 =>
            \A i \in DOMAIN Chain(op[t]) :
                Sym(Chain(op[t])[i].name) \notin exports =>
                    /\ stage[t] <= i
                    /\ pc[t] \in {"force", "wait", "boot_drop", "resolve", "panicked"}
                        \/ (pc[t] = "call" /\ stage[t] < i)
                    /\ result[t] = <<>>
                    /\ CallsInto(t, Sym(Chain(op[t])[i].name)) = {}
                    /\ Len(calls[t]) < i
                    /\ op[t].name = "set_all_io_mode" => calls[t] = <<>> /\ index[t] = 0

\* set_all_io_mode has panicked on a module without adc_io_ModeSet, before
\* any channel was touched.
C6_Witness ==
    /\ handle # 0
    /\ "adc_io_ModeSet" \notin exports
    /\ pc[1] = "panicked"
    /\ op[1].name = "set_all_io_mode"
    /\ calls[1] = <<>>

\* C7: set_all_io_mode(mode) calls adc_io_ModeSet once per channel, for the
\* indexes 0, 1, ..., 7 in this order and always with its own mode argument,
\* whatever the calls return: while it runs the calls made so far are that
\* prefix, and when it returns all eight have been made.
C7_AllChannelsAttempted ==
    \A t \in Threads :
        op[t].name = "set_all_io_mode" /\ pc[t] \in {"call", "done"} =>
            /\ \A i \in DOMAIN calls[t] :
                /\ calls[t][i].sym = "adc_io_ModeSet"
                /\ calls[t][i].args = <<i - 1, op[t].args[1]>>
            /\ Len(calls[t]) = index[t]
            /\ pc[t] = "done" => Len(calls[t]) = 8

\* The call for channel 3 alone failed and channels 0..7 were all attempted.
C7_Witness ==
    /\ pc[1] = "done"
    /\ op[1] = Op("set_all_io_mode", <<1>>)
    /\ Len(calls[1]) = 8
    /\ \A i \in 1..8 : calls[1][i].ret = (IF i = 4 THEN -1 ELSE 0)
    /\ calls[1][8].args = <<7, 1>>

\* C8: set_all_io_mode returns 0 exactly when all eight native calls returned
\* 0 and -1 exactly when at least one returned nonzero; nothing else about
\* the failures reaches the caller.
C8_AggregateFlag ==
    \A t \in Threads :
        op[t].name = "set_all_io_mode" /\ pc[t] = "done" =>
            /\ result[t] \in {<<0>>, <<-1>>}
            /\ result[t] = <<0>> <=> \A i \in DOMAIN calls[t] : calls[t][i].ret = 0
            /\ result[t] = <<-1>> <=> \E i \in DOMAIN calls[t] : calls[t][i].ret # 0

\* Only the call for channel 0 failed, with a positive code, and the result
\* is -1.
C8_Witness ==
    /\ pc[1] = "done"
    /\ op[1].name = "set_all_io_mode"
    /\ Len(calls[1]) = 8
    /\ calls[1][1].ret = 1
    /\ \A i \in 2..8 : calls[1][i].ret = 0
    /\ result[1] = <<-1>>

\* C9: for an index i in 0..7, get_io_level(i) makes exactly one native call,
\* to adc_io_InputGetAll, and returns bit i of the byte m that call returned:
\* (m >> i) & 1, which is 0 or 1.
C9_LevelIsBitOfMask ==
    \A t \in Threads :
        op[t].name = "get_io_level" /\ pc[t] = "done" /\ op[t].args[1] \in 0..7 =>
            /\ Len(calls[t]) = 1
            /\ calls[t][1].sym = "adc_io_InputGetAll"
            /\ calls[t][1].ret \in 0..255
            /\ result[t] = <<(calls[t][1].ret \div 2^(op[t].args[1])) % 2>>
            /\ result[t][1] \in {0, 1}

\* The mask 0b1000_1000 read at index 7 gives 1.
C9_Witness ==
    /\ pc[1] = "done"
    /\ op[1] = Op("get_io_level", <<7>>)
    /\ calls[1][1].ret = 136
    /\ result[1] = <<1>>

\* C10: new_color(r, g, b) is (r << 16) | (g << 8) | b, lies below 2^24, and
\* its three bytes are r, g and b again.
C10_ColorPacking ==
    \A t \in Threads :
        op[t].name = "Color::new_color" /\ pc[t] = "done" =>
            LET r == op[t].args[1]
                g == op[t].args[2]
                b == op[t].args[3]
                c == result[t][1]
            IN  /\ c = BitOr(BitOr(r * 65536, g * 256), b)
                /\ c >= 0 /\ c < 2^24
                /\ BitAnd(c \div 65536, 255) = r
                /\ BitAnd(c \div 256, 255) = g
                /\ BitAnd(c, 255) = b

\* A colour whose three bytes are all different and have their top bits set.
C10_Witness ==
    /\ pc[1] = "done"
    /\ op[1] = Op("Color::new_color", <<255, 128, 129>>)
    /\ result[1] = <<16744577>>

\* C11: adc_open makes one call to adc_io_open and returns what it returned:
\* on -1 it writes one error record and returns -1, on every other value v it
\* writes none and returns v; no return value makes it panic.
C11_OpenSentinel ==
    \A t \in Threads :
        op[t].name = "adc_open" =>
            /\ pc[t] = "panicked" => calls[t] = <<>>
            /\ calls[t] # <<>> =>
                /\ pc[t] = "done"
                /\ Len(calls[t]) = 1
                /\ calls[t][1].sym = "adc_io_open"
                /\ result[t] = <<calls[t][1].ret>>
                /\ calls[t][1].ret = -1 => errs[t] = 1 /\ result[t] = <<-1>>
                /\ calls[t][1].ret # -1 => errs[t] = 0

\* adc_io_open returned -1: one error record, -1 handed to the caller.
C11_Witness ==
    /\ pc[1] = "done"
    /\ op[1].name = "adc_open"
    /\ calls[1][1].ret = -1
    /\ result[1] = <<-1>>
    /\ errs[1] = 1

\* C12: adc_get_all_channels returns Ok(()) exactly when ADC_GetAll returned
\* 0; on every nonzero code it returns the one error value "Failed to get all
\* ADC channels", in which the code does not appear, and writes one error
\* record.
C12_ReadResult ==
    \A t \in Threads :
        op[t].name = "adc_get_all_channels" /\ pc[t] = "done" =>
            /\ Len(calls[t]) = 1
            /\ calls[t][1].sym = "ADC_GetAll"
            /\ result[t] = <<"Ok">> <=> calls[t][1].ret = 0
            /\ calls[t][1].ret = 0 => errs[t] = 0
            /\ calls[t][1].ret # 0 =>
                /\ result[t] = <<"Err", "Failed to get all ADC channels">>
                /\ errs[t] = 1

\* ADC_GetAll returned the positive code 1: the caller gets the fixed error.
C12_Witness ==
    /\ pc[1] = "done"
    /\ op[1].name = "adc_get_all_channels"
    /\ calls[1][1].ret = 1
    /\ result[1] = <<"Err", "Failed to get all ADC channels">>
    /\ errs[1] = 1

\* C13: the caller's array is written by the native call only: before the
\* call it holds what the caller put there, after the call (success or
\* failure) exactly what ADC_GetAll left in it.
C13_BufferUntouched ==
    \A t \in Threads :
        op[t].name = "adc_get_all_channels" =>
            /\ Len(mem[t]) = AdcChannels
            /\ calls[t] = <<>> => mem[t] = op[t].args[1]
            /\ calls[t] # <<>> => mem[t] = left[t]

\* The call failed after the native code wrote the first element only: the
\* caller sees that element and nine of its own.
C13_Witness ==
    /\ pc[1] = "done"
    /\ op[1] = Op("adc_get_all_channels", <<[i \in 1..AdcChannels |-> 7]>>)
    /\ calls[1][1].ret = -1
    /\ result[1][1] = "Err"
    /\ mem[1] = [i \in 1..AdcChannels |-> IF i = 1 THEN 99 ELSE 7]

\* The native calls of the finished operation that returned -1, the one value
\* that is both nonzero and the sentinel (adc_io_InputGetAll returns a mask,
\* not a status).
C14_FailedCalls(t) ==
    {i \in DOMAIN calls[t] : calls[t][i].sym # "adc_io_InputGetAll" /\ calls[t][i].ret = -1}

C14_Logs(name, r) ==
    \/ name \in {"adc_open", "adc_close", "flip_io_level"} /\ r = -1
    \/ name \in {"adc_get_all_channels", "set_all_io_levels", "set_io_mode", "mpu6500_open",
                  "get_all_io_mode"} /\ r # 0

C15_SingleSymbol ==
    {"adc_open", "adc_close", "adc_get_all_channels", "io_get_all_channels",
     "set_all_io_levels", "flip_io_level", "get_all_io_mode", "set_io_mode",
     "mpu6500_open", "mpu6500_get_accel", "mpu6500_get_gyro", "mpu6500_get_attitude",
     "mpu_get_gyro_fsr", "mpu_get_accel_fsr", "mpu_set_gyro_fsr", "mpu_set_accel_fsr",
     "Screen::open", "Screen::close", "Screen::refresh", "Screen::set_font_size",
     "Screen::set_fore_color", "Screen::set_back_color", "Screen::set_led_color",
     "Screen::fill_screen", "Screen::put_string", "Screen::fill_frame",
     "Screen::fill_round_frame", "Screen::fill_circle", "Screen::draw_mesh",
     "Screen::draw_frame", "Screen::draw_round_frame", "Screen::draw_pixel",
     "Screen::draw_circle", "Screen::draw_arc", "Screen::draw_line"}

\* C15: a single-symbol adapter never calls its native entry point twice, and
\* when it returns it has called it exactly once, whatever the call returned.
C15_ExactlyOnce ==
    \A t \in Threads :
        op[t].name \in C15_SingleSymbol =>
            /\ Len(calls[t]) <= 1
            /\ pc[t] \in {"cstring", "force", "wait", "resolve", "call"} => calls[t] = <<>>
            /\ pc[t] = "done" => Len(calls[t]) = 1 /\ calls[t][1].sym = Sym(op[t].name)

\* adc_io_close failed and was not called again.
C15_Witness ==
    /\ pc[1] = "done"
    /\ op[1].name = "adc_close"
    /\ Len(calls[1]) = 1
    /\ calls[1][1].ret = -1
    /\ result[1] = <<-1>>

\* C16 as stated: with the module loaded and every symbol exported, no
\* adapter call panics.
C16_OnlyBootAndSymbolAbort ==
    \A t \in Threads :
        cell = "complete" /\ exports = AllSymbols => pc[t] # "panicked"

\* C16 amended: with the module loaded and every symbol exported, an adapter
\* call returns normally for every argument and every native return value,
\* except that put_string (and print) of a text holding a 0 byte panics before
\* its native call, and get_io_level of an index of 8 or more panics when the
\* build checks shift overflow.
C16_AbortsOnlyOnBadArgument ==
    \A t \in Threads :
        cell = "complete" /\ exports = AllSymbols /\ pc[t] = "panicked" =>
            \/ /\ Prim(t).name = "Screen::put_string"
               /\ \E i \in DOMAIN Prim(t).args[3] : Prim(t).args[3][i] = 0
               /\ Len(calls[t]) = stage[t] - 1
            \/ /\ op[t].name = "get_io_level"
               /\ op[t].args[1] >= NumChannels

\* The module is loaded and complete, and print of "A\0B" has panicked
\* without a native call.
C16_Witness ==
    /\ cell = "complete"
    /\ exports = AllSymbols
    /\ pc[1] = "panicked"
    /\ op[1] = Op("Screen::print", <<<<65, 0, 66>>>>)
    /\ calls[1] = <<>>

\* C17: whatever was called before (nothing, adc_open, adc_close), an adapter
\* call is forwarded to the native module and its outcome is the one the
\* native call had: the integer adapters return the native value, and
\* adc_get_all_channels succeeds exactly when ADC_GetAll returned 0.
C17_NoLifecycleState ==
    \A t \in Threads :
        pc[t] = "done" /\ InAdapter(t) =>
            /\ calls[t] # <<>>
            /\ op[t].name \in {"adc_open", "adc_close", "io_get_all_channels",
                                "set_all_io_levels", "flip_io_level", "set_io_mode"} =>
                /\ Len(calls[t]) = 1
                /\ result[t] = <<calls[t][1].ret>>
            /\ op[t].name = "adc_get_all_channels" =>
                /\ Len(calls[t]) = 1
                /\ result[t] = <<"Ok">> <=> calls[t][1].ret = 0

\* A read after adc_close: it was forwarded, the native call reported
\* success and so does the adapter.
C17_Witness ==
    /\ prev = "adc_close"
    /\ pc[1] = "done"
    /\ op[1].name = "adc_get_all_channels"
    /\ calls[1][1].ret = 0
    /\ result[1] = <<"Ok">>

\* The native calls a Screen method call makes, for the methods the fluent
\* expressions are made of.
C18_Native(m) ==
    CASE m.name = "Screen::draw_pixel" -> <<[sym |-> "UG_DrawPixel", args |-> m.args]>>
      [] m.name = "Screen::draw_line" -> <<[sym |-> "UG_DrawLine", args |-> m.args]>>
      [] m.name = "Screen::refresh" -> <<[sym |-> "LCD_Refresh", args |-> <<>>]>>
      [] m.name = "Screen::print" ->
            <<[sym |-> "UG_PutString", args |-> <<0, 0, m.args[1] \o <<0>>>>]>>
      [] m.name = "Screen::set_all_leds_off" ->
            <<[sym |-> "adc_led_set", args |-> <<0, 0>>],
              [sym |-> "adc_led_set", args |-> <<1, 0>>]>>

\* C18: the native calls of a fluent expression screen.a(..).b(..) are those
\* of a followed by those of b, each made while its own method runs (the
\* calls made so far are the methods completed so far, with or without a
\* refresh in the expression), and every Screen method returns its receiver.
C18_ImmediateAndFluent ==
    \A t \in Threads :
        /\ op[t].name = "Screen::chain" =>
            LET exp == C18_Native(op[t].args[1]) \o C18_Native(op[t].args[2])
            IN  /\ Len(calls[t]) <= Len(exp)
                /\ \A i \in DOMAIN calls[t] :
                    /\ calls[t][i].sym = exp[i].sym
                    /\ calls[t][i].args = exp[i].args
                /\ pc[t] \in {"cstring", "force", "resolve", "call"} =>
                    Len(calls[t]) = stage[t] - 1
                /\ pc[t] = "done" => Len(calls[t]) = Len(exp)
        /\ op[t].name \in ScreenMethods /\ pc[t] = "done" =>
            /\ calls[t] # <<>>
            /\ result[t] = <<"self">>

\* screen.draw_line(..).draw_pixel(..) has returned: both calls were made,
\* in this order, without any refresh.
C18_Witness ==
    /\ pc[1] = "done"
    /\ op[1].name = "Screen::chain"
    /\ Len(calls[1]) = 2
    /\ calls[1][1].sym = "UG_DrawLine"
    /\ calls[1][1].ret = -1
    /\ calls[1][2].sym = "UG_DrawPixel"
    /\ result[1] = <<"self">>

\* C19: once the library is loaded nothing makes a thread wait for another:
\* a dereference of LIBRARY goes through, a thread in the loop of
\* set_all_io_mode can enter adc_io_ModeSet and a thread inside it can
\* leave, whatever the other thread is doing.
C19_NoSerialization ==
    \A t \in IoThreads :
        /\ pc[t] = "force" /\ cell = "complete" => ENABLED ForceReady(t)
        /\ pc[t] = "wait" /\ cell = "complete" => ENABLED Wake(t)
        /\ pc[t] = "call" /\ index[t] < NumChannels => ENABLED ModeSetEnter(t)
        /\ pc[t] = "native" => ENABLED ModeSetLeave(t)

\* Two calls with different modes have both returned 0, the threads were
\* inside adc_io_ModeSet at the same time, and the channels hold a mix of
\* the two modes.
C19_Witness ==
    /\ \A t \in IoThreads : pc[t] = "done" /\ result[t] = <<0>> /\ Len(calls[t]) = 8
    /\ op[1].args # op[NumThreads].args
    /\ overlapped
    /\ \E i, j \in DOMAIN chanMode : chanMode[i] = 0 /\ chanMode[j] = 1
    /\ \A i \in DOMAIN chanMode : chanMode[i] \in {0, 1}

\* C20: set_all_io_levels, flip_io_level, set_io_mode, mpu_set_gyro_fsr and
\* mpu_set_accel_fsr hand their arguments to the native call as they got
\* them, in and out of the documented ranges, and return what it returned.
C20_PassThrough ==
    \A t \in Threads :
        /\ op[t].name \in {"set_all_io_levels", "flip_io_level", "set_io_mode",
                            "mpu_set_gyro_fsr", "mpu_set_accel_fsr"}
        /\ pc[t] = "done"
        => /\ Len(calls[t]) = 1
           /\ calls[t][1].args = op[t].args
           /\ result[t] = <<calls[t][1].ret>>

\* set_all_io_levels(256), a value with no bit among the low eight, reached
\* the native call as 256, and its code 1 reached the caller.
C20_Witness ==
    /\ pc[1] = "done"
    /\ op[1] = Op("set_all_io_levels", <<256>>)
    /\ calls[1][1].args = <<256>>
    /\ calls[1][1].ret = 1
    /\ result[1] = <<1>>

\* C21: each of the 15 FontSize variants FontWxH has column width W and row
\* height H, and the variants' codes, which set_font_size hands to
\* LCD_SetFont, are 0..14 in the order of declaration.
C21_FontTable ==
    /\ Len(FontSize) = 15
    /\ \A i \in DOMAIN FontSize : Discriminant(FontSize[i]) = i - 1
    /\ \A t \in Threads :
        pc[t] = "done" /\ op[t].name \in {"FontSize::column_width", "FontSize::row_height",
                                          "Screen::set_font_size"} =>
            \A i \in DOMAIN FontSize :
                op[t].args[1] = Discriminant(FontSize[i]) =>
                    /\ op[t].name = "FontSize::column_width" => result[t] = <<FontSize[i][1]>>
                    /\ op[t].name = "FontSize::row_height" => result[t] = <<FontSize[i][2]>>
                    /\ op[t].name = "Screen::set_font_size" =>
                        /\ Len(calls[t]) = 1
                        /\ calls[t][1].sym = "LCD_SetFont"
                        /\ calls[t][1].args = <<i - 1>>

\* row_height of Font12x20 has returned 20.
C21_Witness ==
    /\ pc[1] = "done"
    /\ op[1].name = "FontSize::row_height"
    /\ op[1].args = <<Discriminant(<<12, 20>>)>>
    /\ result[1] = <<20>>

\* C22: Vertical is 64 wide and 128 high, Horizontal 128 wide and 64 high,
\* the width of one direction is the height of the other, and the codes are
\* Vertical = 1 and Horizontal = 2.
C22_DirectionTable ==
    /\ Vertical = 1 /\ Horizontal = 2
    /\ \A d, e \in Directions : d # e => width(d) = height(e) /\ height(d) = width(e)
    /\ \A t \in Threads :
        pc[t] = "done" =>
            /\ op[t].name = "ScreenDirection::width" =>
                result[t] = IF op[t].args[1] = Vertical THEN <<64>> ELSE <<128>>
            /\ op[t].name = "ScreenDirection::height" =>
                result[t] = IF op[t].args[1] = Vertical THEN <<128>> ELSE <<64>>
            /\ op[t].name = "Screen::open" =>
                /\ op[t].args[1] \in {1, 2}
                /\ calls[t][1].args = op[t].args

\* height of Horizontal has returned 64, the width of Vertical.
C22_Witness ==
    /\ pc[1] = "done"
    /\ op[1].name = "ScreenDirection::height"
    /\ op[1].args = <<Horizontal>>
    /\ result[1] = <<64>>
    /\ result[1] = <<width(Vertical)>>

\* The native calls of Screen::new(Some(d)), in order.
C23_Expected(d) == <<[sym |-> "lcd_open", args |-> <<d>>],
                     [sym |-> "UG_FillScreen", args |-> <<0>>],
                     [sym |-> "LCD_Refresh", args |-> <<>>]>>

\* C23: Screen::new(Some(dir)) makes exactly three native calls, lcd_open(dir),
\* UG_FillScreen(0) and LCD_Refresh in this order, and returns a Screen with
\* screen_dir = Some(dir) and font_size = Font12x20; Screen::new(None) makes
\* no native call and returns a Screen with screen_dir = None and the same
\* font size.
C23_NewOpensFillsRefreshes ==
    \A t \in Threads :
        op[t].name = "Screen::new" =>
            /\ \A i \in DOMAIN calls[t] :
                /\ op[t].args[1] # None
                /\ i <= 3
                /\ calls[t][i].sym = C23_Expected(op[t].args[1])[i].sym
                /\ calls[t][i].args = C23_Expected(op[t].args[1])[i].args
            /\ pc[t] = "done" =>
                /\ Len(calls[t]) = IF op[t].args[1] = None THEN 0 ELSE 3
                /\ op[t].args[1] = None => h[t] = 0
                /\ result[t] = self[t]
                /\ result[t][3] = Discriminant(<<12, 20>>)
                /\ result[t][4] = op[t].args[1]

\* Screen::new(Some(Horizontal)) has returned after its three calls, the
\* first of which reported a failure.
C23_Witness ==
    /\ pc[1] = "done"
    /\ op[1].name = "Screen::new"
    /\ op[1].args = <<Horizontal>>
    /\ Len(calls[1]) = 3
    /\ calls[1][1].ret = -1
    /\ result[1] = <<0, 0, 11, Horizontal>>

\* The adapter methods of operation o include the method called name.
C24_Runs(o, name) == \E i \in DOMAIN Chain(o) : Chain(o)[i].name = name

\* C24: a thread's Screen changes only when one of its methods has run; a
\* method never changes screen_size, the font size changes only if set_font_size ran and the
\* direction only if open ran: close, refresh, the colour and LED setters,
\* put_string, print and the fill and draw methods leave the Screen as it was.
C24_OnlyDedicatedMethods ==
    [][\A t \in Threads :
        screen'[t] # screen[t] =>
            /\ op[t].name \in ScreenMethods
            /\ screen'[t][1] = screen[t][1] /\ screen'[t][2] = screen[t][2]
            /\ screen'[t][3] # screen[t][3] => C24_Runs(op[t], "Screen::set_font_size")
            /\ screen'[t][4] # screen[t][4] => C24_Runs(op[t], "Screen::open")
      ]_vars

\* close has returned on a Screen that was opened vertically, and the Screen
\* still records that direction.
C24_Witness ==
    /\ pc[1] = "done"
    /\ op[1].name = "Screen::close"
    /\ Len(calls[1]) = 1
    /\ screen[1][4] = Vertical
    /\ self[1] = screen[1]

\* C25: when open(d) has returned the Screen records the direction d, and
\* when set_font_size(f) has returned it records the font size f, whatever
\* the native call returned; the return code is dropped: the method returns
\* self and logs no error.
C25_RecordsUnconditionally ==
    \A t \in Threads :
        pc[t] = "done" /\ op[t].name \in {"Screen::open", "Screen::set_font_size"} =>
            /\ op[t].name = "Screen::open" => self[t][4] = op[t].args[1]
            /\ op[t].name = "Screen::set_font_size" => self[t][3] = op[t].args[1]
            /\ calls[t][1].ret \in NativeRets
            /\ result[t] = <<"self">>
            /\ errs[t] = 0

\* lcd_open has reported a failure for open(Horizontal) on a Screen that
\* was not open, and the Screen records Horizontal.
C25_Witness ==
    /\ pc[1] = "done"
    /\ op[1].name = "Screen::open"
    /\ op[1].args = <<Horizontal>>
    /\ calls[1][1].ret = -1
    /\ screen[1][4] = None
    /\ self[1][4] = Horizontal

\* C26: the screen_size of every Screen, the one a thread owns and the one an
\* operation is working on, is (0, 0) at all times: open does not set it to
\* the width and height of its direction.
C26_SizeStaysZero ==
    \A t \in Threads :
        /\ screen[t][1] = 0 /\ screen[t][2] = 0
        /\ self[t] # <<>> => self[t][1] = 0 /\ self[t][2] = 0
        /\ pc[t] = "done" /\ op[t].name = "Screen::new" => result[t][1] = 0 /\ result[t][2] = 0

\* A thread owns a Screen that records the direction Vertical, whose width is
\* 64, and has just opened it horizontally after changing the font.
C26_Witness ==
    /\ screen[1] = <<0, 0, 6, Vertical>>
    /\ width(screen[1][4]) = 64
    /\ pc[1] = "done"
    /\ op[1].name = "Screen::open"
    /\ self[1] = <<0, 0, 6, Horizontal>>

\* C27: the temporary file is created, then written, then loaded from, then
\* removed, in this order: the module is loaded only from the written file,
\* and whenever the initializer is left, by returning or by a panic of the
\* write or of the load, no temporary file remains; after a successful
\* bootstrap the file is gone while the handle is there and stays.
C27_BootstrapOrder ==
    [][/\ tmpFile' # tmpFile =>
            <<tmpFile, tmpFile'>> \in {<<"none", "empty">>, <<"empty", "written">>,
                                      <<"empty", "removed">>, <<"written", "removed">>}
       /\ loads' # loads => tmpFile = "written" /\ tmpFile' = "written" /\ handle' # 0
       /\ cell = "running" /\ cell' # "running" => tmpFile' \in {"none", "removed"}
       /\ cell = "running" /\ cell' = "complete" => tmpFile = "written" /\ loads = 1
       /\ cell' = "complete" => tmpFile' = "removed" /\ handle' # 0
       /\ \A t \in Threads : pc'[t] \in {"resolve", "call", "done"} /\ calls'[t] # <<>> =>
            tmpFile' = "removed" /\ h'[t] = handle'
      ]_vars

\* The bootstrap succeeded, the temporary file is removed, and calls made
\* after the removal have returned on the handle.
C27_Witness ==
    /\ cell = "complete"
    /\ tmpFile = "removed"
    /\ extractions = 1
    /\ returned = MaxOps
    /\ \E t \in Threads : pc[t] = "done" /\ calls[t] # <<>> /\ h[t] = handle /\ ~waited[t]

\* C28: get_all_io_mode, mpu_get_gyro_fsr and mpu_get_accel_fsr return their
\* local buffer, which starts at 0: the value is what the native call left
\* there, so a failed call that wrote nothing yields 0 like a successful read
\* of 0; the two mpu getters log nothing, get_all_io_mode logs one error for a
\* nonzero code.
C28_GettersReturnLocal ==
    \A t \in Threads :
        pc[t] = "done" /\ op[t].name \in {"get_all_io_mode", "mpu_get_gyro_fsr",
                                          "mpu_get_accel_fsr"} =>
            /\ Len(calls[t]) = 1
            /\ result[t] = left[t]
            /\ left[t] = <<0>> => result[t] = <<0>>
            /\ op[t].name # "get_all_io_mode" => errs[t] = 0
            /\ op[t].name = "get_all_io_mode" =>
                errs[t] = IF calls[t][1].ret # 0 THEN 1 ELSE 0

\* mpu_get_gyro_fsr has returned 0 without an error record although its
\* native call failed and wrote nothing.
C28_Witness ==
    /\ pc[1] = "done"
    /\ op[1].name = "mpu_get_gyro_fsr"
    /\ calls[1][1].ret = -1
    /\ left[1] = <<0>>
    /\ result[1] = <<0>>
    /\ errs[1] = 0

====
